---- MODULE Spec2Model ----
(***************************************************************************)
(* Verification model of the PnPRANAAC sources:                            *)
(*   - P3P_Kneip::computePoses / P3P_Kneip::solveQuartic                   *)
(*   - theia::ConnectedComponents<T>                                       *)
(*   - theia::Histogram<T>                                                 *)
(* Each component has its own specification (SpecCC, SpecHist, ...); the   *)
(* variables of the other components keep their idle value there.          *)
(***************************************************************************)
EXTENDS Integers, Sequences, FiniteSets, TLC

VARIABLES
  \* ---- theia::ConnectedComponents<T>
  disjoint_set_,                  \* unordered_map<T, Root>: node -> [id, size]
  max_connected_component_size_,  \* the size cap given to the constructor
  connected_components,           \* the caller's map filled by Extract
  edges,                          \* history: the edges given to AddEdge so far
  nAddEdge,                       \* history: the number of AddEdge calls so far
  capHit,                         \* history: some AddEdge was refused by the cap
  fresh,                          \* history: no AddEdge since the last Extract
  lastAdd,                        \* history: the last AddEdge call and the partition before it
  \* ---- theia::Histogram<T>
  elemType,                       \* the template parameter T: "int" or "double"
  boundaries_,                    \* std::vector<T>
  histogram_count_,               \* std::vector<int>
  nAdd,                           \* history: the number of Add calls so far
  lastValue,                      \* history: the argument of the last Add
  lastBin,                        \* history: bin_index of the last Add (0-based)
  countBefore,                    \* history: histogram_count_ before the last Add
  \* ---- P3P_Kneip
  harness,                        \* which calls are made: "quartic", "poses", "calls" or "idle"
  factors,                        \* solveQuartic: the five coefficients, degree 4 down to 0
  realRoots,                      \* solveQuartic: the caller's Matrix<double, 4, 1>
  quarticReturned,                \* solveQuartic: the values returned so far
  quarticLocals,                  \* solveQuartic: alpha, beta, y and w of the call
  chosenRoots,                    \* history: the roots the coefficients were expanded from
  featureVectors,                 \* computePoses: argument of the last call
  worldPoints,                    \* computePoses: argument of the last call
  solutions,                      \* computePoses: the caller's vector of candidates
  returned,                       \* computePoses: the values returned so far, one per call
  locals,                         \* computePoses: f1, f2, f3, P1, P2, P3 and T of the last call
  solutionsBefore,                \* history: solutions when the last call was made
  solutionsInitial                \* history: solutions before the first call

ccVars == <<disjoint_set_, max_connected_component_size_, connected_components,
            edges, nAddEdge, capHit, fresh, lastAdd>>

histVars == <<elemType, boundaries_, histogram_count_, nAdd, lastValue, lastBin, countBefore>>

quarticVars == <<factors, realRoots, quarticReturned, quarticLocals, chosenRoots>>

poseVars == <<featureVectors, worldPoints, solutions, returned, locals,
              solutionsBefore, solutionsInitial>>

vars == <<ccVars, histVars, harness, quarticVars, poseVars>>

-----------------------------------------------------------------------------
(* theia::ConnectedComponents<T>: data structure                            *)

NumNodes == 4    \* node ids are 1..NumNodes
MaxEdges == 4    \* number of AddEdge calls in one behaviour

Nodes == 1..NumNodes

Root(id, size) == [id |-> id, size |-> size]

\* FindRoot returns a pointer to the root's own map entry (modelled by the
\* root's key) and flattens the path: every entry on the path becomes a copy
\* of the root's entry.
RECURSIVE FindRoot(_, _)
FindRoot(ds, node) ==
  LET parent == ds[node] IN
  IF node = parent.id
    THEN [ds |-> ds, root |-> node]
    ELSE LET r == FindRoot(ds, parent.id) IN
         [ds |-> [r.ds EXCEPT ![node] = r.ds[r.root]], root |-> r.root]

FindOrInsert(ds, node) ==
  IF node \notin DOMAIN ds
    THEN [ds |-> ds @@ (node :> Root(node, 1)), root |-> node]
    ELSE FindRoot(ds, node)

\* The map after AddEdge(node1, node2) under the cap maxSize; the faulty
\* variant drops the size test of the early return.
AddEdgeNoCap(ds0, maxSize, node1, node2) ==
  LET r1 == FindOrInsert(ds0, node1)
      r2 == FindOrInsert(r1.ds, node2)
      ds == r2.ds
      root1 == r1.root
      root2 == r2.root
  IN  IF ds[root1].id = ds[root2].id
        THEN ds
        ELSE IF ds[root1].size < ds[root2].size
          THEN LET grown == [ds EXCEPT ![root2].size = @ + ds[root1].size]
               IN  [grown EXCEPT ![root1] = grown[root2]]
          ELSE LET grown == [ds EXCEPT ![root1].size = @ + ds[root2].size]
               IN  [grown EXCEPT ![root2] = grown[root1]]

\* The faulty variant forgets the recursion of FindRoot on the second node: it takes
\* the entry the node maps to as the root, whether or not it is one.
AddEdgeStaleRoot(ds0, maxSize, node1, node2) ==
  LET r1 == FindOrInsert(ds0, node1)
      ds == IF node2 \in DOMAIN r1.ds THEN r1.ds ELSE r1.ds @@ (node2 :> Root(node2, 1))
      root1 == r1.root
      root2 == node2
  IN  IF ds[root1].id = ds[root2].id \/ ds[root1].size + ds[root2].size > maxSize
        THEN ds
        ELSE IF ds[root1].size < ds[root2].size
          THEN LET grown == [ds EXCEPT ![root2].size = @ + ds[root1].size]
               IN  [grown EXCEPT ![root1] = grown[root2]]
          ELSE LET grown == [ds EXCEPT ![root1].size = @ + ds[root2].size]
               IN  [grown EXCEPT ![root2] = grown[root1]]

AddEdgeMap(ds0, maxSize, node1, node2) ==
  LET r1 == FindOrInsert(ds0, node1)
      r2 == FindOrInsert(r1.ds, node2)
      ds == r2.ds
      root1 == r1.root
      root2 == r2.root
  IN  IF ds[root1].id = ds[root2].id \/ ds[root1].size + ds[root2].size > maxSize
        THEN ds
        ELSE IF ds[root1].size < ds[root2].size
          THEN LET grown == [ds EXCEPT ![root2].size = @ + ds[root1].size]
               IN  [grown EXCEPT ![root1] = grown[root2]]
          ELSE LET grown == [ds EXCEPT ![root1].size = @ + ds[root2].size]
               IN  [grown EXCEPT ![root2] = grown[root1]]

\* Whether AddEdge(node1, node2) returns early because of the cap.
RefusedByCap(ds0, maxSize, node1, node2) ==
  LET r1 == FindOrInsert(ds0, node1)
      r2 == FindOrInsert(r1.ds, node2)
  IN  /\ r2.ds[r1.root].id # r2.ds[r2.root].id
      /\ r2.ds[r1.root].size + r2.ds[r2.root].size > maxSize

\* The root a node resolves to, read without changing the map.
RECURSIVE RootOf(_, _)
RootOf(ds, node) == IF ds[node].id = node THEN node ELSE RootOf(ds, ds[node].id)

\* The components the map stands for.
Partition(ds) ==
  {{m \in DOMAIN ds : RootOf(ds, m) = RootOf(ds, n)} : n \in DOMAIN ds}

EmptyMap == [x \in {} |-> {}]

\* Extract: clear the caller's map, then for every node of disjoint_set_
\* insert the node under FindRoot(node)->id.  The iteration order of the
\* unordered_map is unspecified; the result does not depend on it.
RECURSIVE ExtractFrom(_, _, _)
ExtractFrom(ds, todo, cc) ==
  IF todo = {}
    THEN [ds |-> ds, cc |-> cc]
    ELSE LET node == CHOOSE n \in todo : TRUE
             r    == FindRoot(ds, node)
             id   == r.ds[r.root].id
         IN  ExtractFrom(r.ds, todo \ {node},
                         IF id \in DOMAIN cc
                           THEN [cc EXCEPT ![id] = @ \cup {node}]
                           ELSE cc @@ (id :> {node}))

-----------------------------------------------------------------------------
(* theia::Histogram<T>: data structure                                      *)

TMax          == 3   \* the model's numeric_limits<T>::max()
MaxBoundaries == 2   \* length of the boundaries vector given to the constructor
MaxAdds       == 2   \* number of Add calls in one behaviour

PosInf == TMax + 1   \* +infinity of the floating-point T; -PosInf is -infinity

ElemTypes == {"int", "double"}

\* The values of T: the integers down to numeric_limits<T>::min(), or the
\* finite floating-point values with the two infinities (NaN is left out).
TValues(t) == IF t = "int" THEN (-TMax - 1)..TMax ELSE (-PosInf)..PosInf

\* numeric_limits<T>::infinity(): T() = 0 for a type without an infinity.
Infinity(t) == IF t = "int" THEN 0 ELSE PosInf

NumericMax(t) == TMax

IsSorted(seq) == \A i \in 1..(Len(seq) - 1) : seq[i] <= seq[i + 1]

SortedVectors(t) ==
  {b \in UNION {[1..n -> TValues(t)] : n \in 0..MaxBoundaries} : IsSorted(b)}

\* The constructor: -infinity() in front, max() at the back, one counter per
\* element of boundaries_.
Histogram(t, boundaries) ==
  LET b == <<-Infinity(t)>> \o boundaries \o <<NumericMax(t)>>
  IN  [boundaries_ |-> b, histogram_count_ |-> [i \in 1..Len(b) |-> 0]]

\* std::upper_bound as the library's binary search runs it: the 0-based
\* position of the first element greater than value, Len(seq) for end().
RECURSIVE UpperBoundFrom(_, _, _, _)
UpperBoundFrom(seq, value, first, len) ==
  IF len <= 0
    THEN first
    ELSE LET half == len \div 2
             middle == first + half
         IN  IF value < seq[middle + 1]
               THEN UpperBoundFrom(seq, value, first, half)
               ELSE UpperBoundFrom(seq, value, middle + 1, len - half - 1)

upper_bound(seq, value) == UpperBoundFrom(seq, value, 0, Len(seq))

BinIndex(value) == upper_bound(boundaries_, value) - 1

-----------------------------------------------------------------------------
(* Arithmetic of P3P_Kneip.  A double is modelled by an exact rational      *)
(* <<numerator, denominator>> in lowest terms with a positive denominator,  *)
(* or by NaN; rounding is not modelled.  Irr stands for a value that is not *)
(* rational (the root of a non-square or non-cube), which this arithmetic   *)
(* cannot hold.  A std::complex<double> is a record [re, im]; CNaN and CIrr *)
(* are the complex values with a NaN or an Irr part.                        *)

NaN == <<0, 0>>
Irr == <<1, 0>>

Abs(x) == IF x < 0 THEN -x ELSE x

RECURSIVE Gcd(_, _)
Gcd(a, b) == IF b = 0 THEN a ELSE Gcd(b, a % b)

\* n/d in lowest terms with a positive denominator (d # 0).
Rat(n, d) ==
  LET g == Gcd(Abs(n), Abs(d))
      s == IF d < 0 THEN -1 ELSE 1
  IN  <<(s * n) \div g, (s * d) \div g>>

Num(k) == <<k, 1>>

RNeg(a) == <<-a[1], a[2]>>

RAdd(a, b) ==
  LET g == Gcd(a[2], b[2])
  IN  Rat(a[1] * (b[2] \div g) + b[1] * (a[2] \div g), (a[2] \div g) * b[2])

RSub(a, b) == RAdd(a, RNeg(b))

RMul(a, b) ==
  LET g1 == Gcd(Abs(a[1]), b[2])
      g2 == Gcd(Abs(b[1]), a[2])
  IN  Rat((a[1] \div g1) * (b[1] \div g2), (a[2] \div g2) * (b[2] \div g1))

\* a / b for b # 0.
RDiv(a, b) == RMul(a, Rat(b[2], b[1]))

RLess(a, b) == RSub(a, b)[1] < 0

RIsZero(a) == a[1] = 0

\* The largest k in lo..hi with k^p <= n (p = 2 or 3), by bisection.
RECURSIVE IRootIn(_, _, _, _)
IRootIn(n, p, lo, hi) ==
  IF lo >= hi
    THEN lo
    ELSE LET mid == (lo + hi + 1) \div 2
             pw  == IF p = 2 THEN mid * mid ELSE mid * mid * mid
         IN  IF pw <= n THEN IRootIn(n, p, mid, hi) ELSE IRootIn(n, p, lo, mid - 1)

ISqrt(n) == IRootIn(n, 2, 0, IF n < 46340 THEN n ELSE 46340)
ICbrt(n) == IRootIn(n, 3, 0, IF n < 1290 THEN n ELSE 1290)

\* The square root of a rational a >= 0: exact, or Irr.
RSqrt(a) ==
  LET n == ISqrt(a[1])
      d == ISqrt(a[2])
  IN  IF n * n = a[1] /\ d * d = a[2] THEN <<n, d>> ELSE Irr

\* The real cube root of a rational a >= 0: exact, or Irr.
RCbrt(a) ==
  LET n == ICbrt(a[1])
      d == ICbrt(a[2])
  IN  IF n * n * n = a[1] /\ d * d * d = a[2] THEN <<n, d>> ELSE Irr

Cx(re, im) == [re |-> re, im |-> im]

CReal(a) == Cx(a, Num(0))

CNaN == Cx(NaN, NaN)
CIrr == Cx(Irr, Irr)

IsNum(z) == z # CNaN /\ z # CIrr

\* NaN absorbs every operation; Irr absorbs every operation on numbers.
Lift2(y, z) == IF y = CNaN \/ z = CNaN THEN CNaN ELSE CIrr

CNeg(z) == IF IsNum(z) THEN Cx(RNeg(z.re), RNeg(z.im)) ELSE z

CAdd(y, z) ==
  IF IsNum(y) /\ IsNum(z) THEN Cx(RAdd(y.re, z.re), RAdd(y.im, z.im)) ELSE Lift2(y, z)

CSub(y, z) == CAdd(y, CNeg(z))

CMul(y, z) ==
  IF IsNum(y) /\ IsNum(z)
    THEN Cx(RSub(RMul(y.re, z.re), RMul(y.im, z.im)),
            RAdd(RMul(y.re, z.im), RMul(y.im, z.re)))
    ELSE Lift2(y, z)

CIsZero(z) == IsNum(z) /\ RIsZero(z.re) /\ RIsZero(z.im)

\* y / z; a division by complex zero gives a non-finite value (NaN).
CDiv(y, z) ==
  IF IsNum(y) /\ IsNum(z)
    THEN IF CIsZero(z)
      THEN CNaN
      ELSE LET m == RAdd(RMul(z.re, z.re), RMul(z.im, z.im))
           IN  Cx(RDiv(RAdd(RMul(y.re, z.re), RMul(y.im, z.im)), m),
                  RDiv(RSub(RMul(y.im, z.re), RMul(y.re, z.im)), m))
    ELSE Lift2(y, z)

\* The principal square root: re >= 0, and im has the sign of z.im.
CSqrt(z) ==
  IF ~IsNum(z) THEN z
  ELSE IF RIsZero(z.im)
    THEN IF z.re[1] >= 0
      THEN (IF RSqrt(z.re) = Irr THEN CIrr ELSE Cx(RSqrt(z.re), Num(0)))
      ELSE (IF RSqrt(RNeg(z.re)) = Irr THEN CIrr ELSE Cx(Num(0), RSqrt(RNeg(z.re))))
    ELSE LET m == RSqrt(RAdd(RMul(z.re, z.re), RMul(z.im, z.im)))
         IN  IF m = Irr THEN CIrr
             ELSE LET p == RSqrt(RDiv(RAdd(m, z.re), Num(2)))
                      q == RSqrt(RDiv(RSub(m, z.re), Num(2)))
                  IN  IF p = Irr \/ q = Irr THEN CIrr
                      ELSE Cx(p, IF z.im[1] < 0 THEN RNeg(q) ELSE q)

\* pow(z, 1.0 / 3.0): the principal cube root.  It is evaluated for zero and
\* for a positive real cube; the principal cube root of a negative real has
\* the irrational imaginary part sqrt(3)/2 * |z|^(1/3), and the cube root of
\* a non-real value is not evaluated (Irr).
CCbrt(z) ==
  IF ~IsNum(z) THEN z
  ELSE IF RIsZero(z.im) /\ z.re[1] >= 0
    THEN (IF RCbrt(z.re) = Irr THEN CIrr ELSE Cx(RCbrt(z.re), Num(0)))
    ELSE CIrr

\* temp.real()
CRealPart(z) == z.re

-----------------------------------------------------------------------------
(* P3P_Kneip::solveQuartic                                                  *)

\* solveQuartic(factors, realRoots) for a sequence fac of five integer
\* coefficients with fac[1] # 0, in three stages.

\* Lines 199-217: the depressed quartic.
Depressed(fac) ==
  LET A == Num(fac[1])
      B == Num(fac[2])
      C == Num(fac[3])
      D == Num(fac[4])
      E == Num(fac[5])
      A_pw2 == RMul(A, A)
      B_pw2 == RMul(B, B)
      A_pw3 == RMul(A_pw2, A)
      B_pw3 == RMul(B_pw2, B)
      A_pw4 == RMul(A_pw3, A)
      B_pw4 == RMul(B_pw3, B)
  IN  [alpha |-> RAdd(RDiv(RMul(Num(-3), B_pw2), RMul(Num(8), A_pw2)), RDiv(C, A)),
       beta  |-> RAdd(RSub(RDiv(B_pw3, RMul(Num(8), A_pw3)),
                           RDiv(RMul(B, C), RMul(Num(2), A_pw2))),
                      RDiv(D, A)),
       gamma |-> RAdd(RSub(RAdd(RDiv(RMul(Num(-3), B_pw4), RMul(Num(256), A_pw4)),
                                RDiv(RMul(B_pw2, C), RMul(Num(16), A_pw3))),
                           RDiv(RMul(B, D), RMul(Num(4), A_pw2))),
                      RDiv(E, A)),
       shift |-> RDiv(RNeg(B), RMul(Num(4), A))]

\* Lines 219-221: P, Q and R.
ResolventPQR(d) ==
  LET alpha_pw2 == RMul(d.alpha, d.alpha)
      alpha_pw3 == RMul(alpha_pw2, d.alpha)
      P == CReal(RSub(RDiv(RNeg(alpha_pw2), Num(12)), d.gamma))
      Q == CReal(RSub(RAdd(RDiv(RNeg(alpha_pw3), Num(108)),
                           RDiv(RMul(d.alpha, d.gamma), Num(3))),
                      RDiv(RMul(d.beta, d.beta), Num(8))))
  IN  [P |-> P, Q |-> Q,
       R |-> CAdd(CDiv(CNeg(Q), CReal(Num(2))),
                  CSqrt(CAdd(CDiv(CMul(Q, Q), CReal(Num(4))),
                             CDiv(CMul(CMul(P, P), P), CReal(Num(27))))))]

\* Lines 223-233: U and y.  U.real() == 0 is false for a NaN and for the
\* principal cube root of a value other than zero.
ResolventY(d, r, U) ==
  IF IsNum(U) /\ RIsZero(U.re)
    THEN CSub(CReal(RDiv(RMul(Num(-5), d.alpha), Num(6))), CCbrt(r.Q))
    ELSE CAdd(CSub(CReal(RDiv(RMul(Num(-5), d.alpha), Num(6))),
                   CDiv(r.P, CMul(CReal(Num(3)), U))),
              U)

\* Line 235.
ResolventW(d, y) == CSqrt(CAdd(CReal(d.alpha), CMul(CReal(Num(2)), y)))

\* Lines 239-246: the four roots, in the order they are written.  The
\* faulty variant writes the root of line 243 before the root of line 241.
RootsReordered(d, y, w) ==
  LET half == CReal(Rat(1, 2))
      a3y2 == CAdd(CMul(CReal(Num(3)), CReal(d.alpha)), CMul(CReal(Num(2)), y))
      bw == CDiv(CMul(CReal(Num(2)), CReal(d.beta)), w)
      plus == CSqrt(CNeg(CAdd(a3y2, bw)))
      minus == CSqrt(CNeg(CSub(a3y2, bw)))
  IN  <<CRealPart(CAdd(CReal(d.shift), CMul(half, CAdd(w, plus)))),
        CRealPart(CAdd(CReal(d.shift), CMul(half, CAdd(CNeg(w), minus)))),
        CRealPart(CAdd(CReal(d.shift), CMul(half, CSub(w, plus)))),
        CRealPart(CAdd(CReal(d.shift), CMul(half, CSub(CNeg(w), minus))))>>

Roots(d, y, w) ==
  LET half == CReal(Rat(1, 2))
      a3y2 == CAdd(CMul(CReal(Num(3)), CReal(d.alpha)), CMul(CReal(Num(2)), y))
      bw == CDiv(CMul(CReal(Num(2)), CReal(d.beta)), w)
      temp0 == CAdd(CReal(d.shift), CMul(half, CAdd(w, CSqrt(CNeg(CAdd(a3y2, bw))))))
      temp1 == CAdd(CReal(d.shift), CMul(half, CSub(w, CSqrt(CNeg(CAdd(a3y2, bw))))))
      temp2 == CAdd(CReal(d.shift), CMul(half, CAdd(CNeg(w), CSqrt(CNeg(CSub(a3y2, bw))))))
      temp3 == CAdd(CReal(d.shift), CMul(half, CSub(CNeg(w), CSqrt(CNeg(CSub(a3y2, bw))))))
  IN  <<CRealPart(temp0), CRealPart(temp1), CRealPart(temp2), CRealPart(temp3)>>

QuarticResult(d, U, y, w) ==
  [realRoots |-> Roots(d, y, w), ret |-> 0,
   alpha |-> d.alpha, beta |-> d.beta, shift |-> d.shift, U |-> U, y |-> y, w |-> w]

QuarticFromY(d, U, y) == QuarticResult(d, U, y, ResolventW(d, y))

QuarticFromU(d, r, U) == QuarticFromY(d, U, ResolventY(d, r, U))

QuarticFromPQR(d, r) == QuarticFromU(d, r, CCbrt(r.R))

QuarticFrom(d) == QuarticFromPQR(d, ResolventPQR(d))

solveQuartic(fac) == QuarticFrom(Depressed(fac))

MaxRoot == 2   \* the chosen roots of a quartic lie in -MaxRoot..MaxRoot

LeadingCoefficients == {1, -1, 2}

\* A * (x - r[1]) (x - r[2]) (x - r[3]) (x - r[4]), degree 4 down to 0.
Expand(A, r) ==
  LET e1 == r[1] + r[2] + r[3] + r[4]
      e2 == r[1]*r[2] + r[1]*r[3] + r[1]*r[4] + r[2]*r[3] + r[2]*r[4] + r[3]*r[4]
      e3 == r[1]*r[2]*r[3] + r[1]*r[2]*r[4] + r[1]*r[3]*r[4] + r[2]*r[3]*r[4]
      e4 == r[1]*r[2]*r[3]*r[4]
  IN  <<A, -A * e1, A * e2, -A * e3, A * e4>>

ChosenRoots ==
  {r \in [1..4 -> (-MaxRoot)..MaxRoot] : r[1] <= r[2] /\ r[2] <= r[3] /\ r[3] <= r[4]}

\* The evaluation stayed within the exact arithmetic above.
Evaluated(res) == \A k \in 1..4 : res.realRoots[k] # Irr

-----------------------------------------------------------------------------
(* P3P_Kneip::computePoses                                                  *)
(* Vectors are triples of integers and a Matrix3d is the sequence of its    *)
(* three columns, so featureVectors.col(0) is featureVectors[1].            *)

Sub(a, b) == <<a[1] - b[1], a[2] - b[2], a[3] - b[3]>>

Dot(a, b) == a[1] * b[1] + a[2] * b[2] + a[3] * b[3]

Cross(a, b) ==
  <<a[2] * b[3] - a[3] * b[2],
    a[3] * b[1] - a[1] * b[3],
    a[1] * b[2] - a[2] * b[1]>>

\* v.norm() == 0: the square root of the sum of squares is zero exactly when
\* the sum is.  The faulty variant forgets the third component.
NormIsZeroXY(v) == v[1] * v[1] + v[2] * v[2] = 0

NormIsZero(v) == Dot(v, v) = 0

\* The value num / sqrt(normSq), kept as the pair; a division by a zero norm
\* (num = 0 then, as the vector is zero) is NaN.
Scaled(num, normSq) == <<num, normSq>>

\* s > 0 for a scaled value; a comparison with NaN is false.
Positive(s) == s[2] > 0 /\ s[1] > 0

\* The matrix T after transposeInPlace(): rows e1 = f1, e2 = e3 x e1 and
\* e3 = (f1 x f2) / |f1 x f2|; e2 and e3 are kept unnormalised, with the
\* squared norm they are divided by.
CameraFrame(f1, f2) ==
  [e1 |-> f1,
   e2 |-> Cross(Cross(f1, f2), f1),
   e3 |-> Cross(f1, f2),
   normSq |-> Dot(Cross(f1, f2), Cross(f1, f2))]

\* T * v
InFrame(T, v) ==
  <<Scaled(Dot(T.e1, v), 1), Scaled(Dot(T.e2, v), T.normSq), Scaled(Dot(T.e3, v), T.normSq)>>

\* The roles after the exchange of lines 75-93; the faulty variants leave the world
\* points, or the frame, as they were.
KeptWorldPoints(wps) == wps

ExchangedWorldPoints(wps) == <<wps[2], wps[1], wps[3]>>

ExchangedFeatureVectors(fvs) ==
  <<fvs[2], fvs[1], fvs[3]>>

\* The order in which solveQuartic writes its roots, as the signs (s1, s2) of
\* +-w and of +-sqrt(...) in lines 239-246; computePoses, whose coefficients
\* are not evaluated here, knows root i by these signs.
RootTags == << <<1, 1>>, <<1, -1>>, <<-1, 1>>, <<-1, -1>> >>

\* One candidate gwc, kept by what it is computed from: the root that is
\* back-substituted, the world points that give the origin and the first
\* axis of N, and the feature vectors that give T.
Candidate(root, P1, P2, f1, f2) ==
  [root |-> root, P1 |-> P1, P2 |-> P2, f1 |-> f1, f2 |-> f2]

\* solutions.emplace_back(gwc) for i = 0..3; the faulty variant writes the four
\* candidates into a cleared vector.
IntoCleared(sols, candidates) == candidates

EmplaceBack(sols, candidates) == sols \o candidates

NotComputed ==
  [computed |-> FALSE, swapped |-> FALSE,
   f1 |-> <<0, 0, 0>>, f2 |-> <<0, 0, 0>>, f3 |-> <<NaN, NaN, NaN>>,
   P1 |-> <<0, 0, 0>>, P2 |-> <<0, 0, 0>>, P3 |-> <<0, 0, 0>>,
   T |-> CameraFrame(<<0, 0, 0>>, <<0, 0, 0>>)]

\* computePoses(fvs, wps, sols) for the arguments featureVectors, worldPoints
\* and solutions: the return value,
\* the vector after the call and the locals the call computed.
computePoses(fvs, wps, sols) ==
  LET temp1 == Sub(wps[2], wps[1])
      temp2 == Sub(wps[3], wps[1])
  IN  IF NormIsZero(Cross(temp1, temp2))
        THEN [ret |-> -1, solutions |-> sols, locals |-> NotComputed]
        ELSE
          LET T0  == CameraFrame(fvs[1], fvs[2])
              f30 == InFrame(T0, fvs[3])
              swap == Positive(f30[3])
              fv  == IF swap THEN ExchangedFeatureVectors(fvs) ELSE fvs
              wp  == IF swap THEN ExchangedWorldPoints(wps) ELSE wps
              T   == IF swap THEN CameraFrame(fv[1], fv[2]) ELSE T0
              f3  == IF swap THEN InFrame(T, fv[3]) ELSE f30
              roots == RootTags
              gwc == [i \in 1..4 |-> Candidate(roots[i], wp[1], wp[2], fv[1], fv[2])]
          IN  [ret |-> 0,
               solutions |-> EmplaceBack(sols, gwc),
               locals |-> [computed |-> TRUE, swapped |-> swap,
                           f1 |-> fv[1], f2 |-> fv[2], f3 |-> f3,
                           P1 |-> wp[1], P2 |-> wp[2], P3 |-> wp[3],
                           T |-> T]]

MaxCoord == 2   \* the first coordinate of a world point lies in 0..MaxCoord
MaxCalls == 2   \* calls on one solutions vector

Points == {<<x, y, z>> : x \in 0..MaxCoord, y \in 0..1, z \in 0..1}

\* Unit direction vectors.
Directions == {<<1, 0, 0>>, <<0, 1, 0>>, <<0, 0, 1>>, <<0, 0, -1>>}

\* An entry the caller left in the vector before the first call.
Earlier == Candidate(<<0, 0>>, <<0, 0, 0>>, <<0, 0, 0>>, <<0, 0, 0>>, <<0, 0, 0>>)

\* The arguments of a call: any world points and directions for the single
\* call of the "poses" harness, a few of them for a sequence of calls.
Arguments(h) ==
  IF h = "poses"
    THEN [featureVectors : [1..3 -> Directions], worldPoints : [1..3 -> Points]]
    ELSE [featureVectors : {<<<<1, 0, 0>>, <<0, 1, 0>>, <<0, 0, 1>>>>,
                            <<<<1, 0, 0>>, <<0, 1, 0>>, <<0, 0, -1>>>>},
          worldPoints : [1..3 -> {<<0, 0, 0>>, <<1, 0, 0>>, <<2, 0, 0>>, <<0, 1, 0>>}]]

CallBudget(h) == IF h = "poses" THEN 1 ELSE IF h = "calls" THEN MaxCalls ELSE 0

-----------------------------------------------------------------------------
(* The idle value of each component's variables                             *)

IdleCC ==
  /\ disjoint_set_ = EmptyMap
  /\ max_connected_component_size_ = 1
  /\ connected_components = EmptyMap
  /\ edges = {}
  /\ nAddEdge = 0
  /\ capHit = FALSE
  /\ fresh = FALSE
  /\ lastAdd = [refused |-> FALSE, before |-> {}, nodes |-> {}]

IdleHist ==
  /\ elemType = "int"
  /\ boundaries_ = <<>>
  /\ histogram_count_ = <<>>
  /\ nAdd = 0
  /\ lastValue = 0
  /\ lastBin = 0
  /\ countBefore = <<>>

NoQuarticLocals == [alpha |-> NaN, beta |-> NaN, shift |-> NaN, y |-> CNaN, w |-> CNaN]

NoMatrix == <<<<0, 0, 0>>, <<0, 0, 0>>, <<0, 0, 0>>>>

IdleQuartic ==
  /\ factors = <<>>
  /\ realRoots = <<>>
  /\ quarticReturned = <<>>
  /\ quarticLocals = NoQuarticLocals
  /\ chosenRoots = <<>>

IdlePoses ==
  /\ featureVectors = NoMatrix
  /\ worldPoints = NoMatrix
  /\ solutions = <<>>
  /\ returned = <<>>
  /\ locals = NotComputed
  /\ solutionsBefore = <<>>
  /\ solutionsInitial = <<>>

IdleP3P == harness = "idle" /\ IdleQuartic /\ IdlePoses

-----------------------------------------------------------------------------
(* theia::ConnectedComponents<T>: operations                                *)

InitCC ==
  /\ IdleHist /\ IdleP3P
  /\ disjoint_set_ = EmptyMap
  /\ max_connected_component_size_ \in 1..NumNodes
  /\ connected_components = EmptyMap
  /\ edges = {}
  /\ nAddEdge = 0
  /\ capHit = FALSE
  /\ fresh = FALSE
  /\ lastAdd = [refused |-> FALSE, before |-> {}, nodes |-> {}]

\* The code compares node ids for equality only, so every call sequence is a
\* renaming of one in which unseen nodes enter in increasing order of id.
InOrder(ds, node1, node2) ==
  LET k == Cardinality(DOMAIN ds) IN
  /\ node1 <= k + 1
  /\ node2 <= (IF node1 = k + 1 THEN k + 2 ELSE k + 1)

AddEdge(node1, node2) ==
  /\ UNCHANGED <<histVars, harness, quarticVars, poseVars>>
  /\ nAddEdge < MaxEdges
  /\ InOrder(disjoint_set_, node1, node2)
  /\ nAddEdge' = nAddEdge + 1
  /\ disjoint_set_' = AddEdgeMap(disjoint_set_, max_connected_component_size_, node1, node2)
  /\ edges' = edges \cup {{node1, node2}}
  /\ capHit' = (capHit \/ RefusedByCap(disjoint_set_, max_connected_component_size_, node1, node2))
  /\ fresh' = FALSE
  /\ lastAdd' = [refused |-> RefusedByCap(disjoint_set_, max_connected_component_size_, node1, node2),
                 before  |-> Partition(disjoint_set_),
                 nodes   |-> {node1, node2} \ DOMAIN disjoint_set_]
  /\ UNCHANGED <<max_connected_component_size_, connected_components>>

Extract ==
  /\ UNCHANGED <<histVars, harness, quarticVars, poseVars>>
  /\ LET r == ExtractFrom(disjoint_set_, DOMAIN disjoint_set_, EmptyMap) IN
       /\ disjoint_set_' = r.ds
       /\ connected_components' = r.cc
  /\ fresh' = TRUE
  /\ UNCHANGED <<max_connected_component_size_, edges, nAddEdge, capHit, lastAdd>>

NextCC ==
  \/ \E node1 \in Nodes, node2 \in Nodes : AddEdge(node1, node2)
  \/ Extract

SpecCC == InitCC /\ [][NextCC]_vars

-----------------------------------------------------------------------------
(* theia::Histogram<T>: operations                                          *)

InitHist ==
  /\ IdleCC /\ IdleP3P
  /\ elemType \in ElemTypes
  /\ \E b \in SortedVectors(elemType) :
       /\ boundaries_ = Histogram(elemType, b).boundaries_
       /\ histogram_count_ = Histogram(elemType, b).histogram_count_
  /\ nAdd = 0
  /\ lastValue = 0
  /\ lastBin = 0
  /\ countBefore = <<>>

\* Add with bin_index inside histogram_count_.
AddInside(value) ==
  /\ nAdd < MaxAdds
  /\ BinIndex(value) \in 0..(Len(histogram_count_) - 1)
  /\ histogram_count_' = [histogram_count_ EXCEPT ![BinIndex(value) + 1] = @ + 1]
  /\ nAdd' = nAdd + 1
  /\ lastValue' = value
  /\ lastBin' = BinIndex(value)
  /\ countBefore' = histogram_count_
  /\ UNCHANGED <<elemType, boundaries_>>
  /\ UNCHANGED <<ccVars, harness, quarticVars, poseVars>>

\* Add with bin_index = -1: ++histogram_count_[-1] writes in front of the
\* vector's storage.  The behaviour is undefined; the outcomes kept here are
\* that the counters are untouched or that one of them is changed.
AddOutside(value) ==
  /\ nAdd < MaxAdds
  /\ BinIndex(value) \notin 0..(Len(histogram_count_) - 1)
  /\ \/ histogram_count_' = histogram_count_
     \/ \E i \in 1..Len(histogram_count_) :
          histogram_count_' = [histogram_count_ EXCEPT ![i] = @ + 1]
  /\ nAdd' = nAdd + 1
  /\ lastValue' = value
  /\ lastBin' = BinIndex(value)
  /\ countBefore' = histogram_count_
  /\ UNCHANGED <<elemType, boundaries_>>
  /\ UNCHANGED <<ccVars, harness, quarticVars, poseVars>>

Add(value) == AddInside(value) \/ AddOutside(value)

NextHist == \E value \in TValues(elemType) : Add(value)

SpecHist == InitHist /\ [][NextHist]_vars

-----------------------------------------------------------------------------
(* P3P_Kneip: operations                                                    *)

\* solveQuartic is called once on the expansion of four chosen integer roots
\* with an integer leading coefficient; the quartics are those the exact
\* arithmetic evaluates (those with a repeated root).
InitQuartic ==
  /\ IdleCC /\ IdleHist /\ IdlePoses
  /\ harness = "quartic"
  /\ \E A \in LeadingCoefficients, r \in ChosenRoots :
       /\ Evaluated(solveQuartic(Expand(A, r)))
       /\ factors = Expand(A, r)
       /\ chosenRoots = r
  /\ realRoots = <<>>
  /\ quarticReturned = <<>>
  /\ quarticLocals = NoQuarticLocals

SolveQuarticCall ==
  /\ harness = "quartic"
  /\ quarticReturned = <<>>
  /\ LET res == solveQuartic(factors) IN
       /\ realRoots' = res.realRoots
       /\ quarticReturned' = <<res.ret>>
       /\ quarticLocals' = [alpha |-> res.alpha, beta |-> res.beta, shift |-> res.shift, y |-> res.y, w |-> res.w]
  /\ UNCHANGED <<harness, factors, chosenRoots>>
  /\ UNCHANGED <<ccVars, histVars, poseVars>>

\* One call of computePoses on the caller's vector.
InitPoses ==
  /\ IdleCC /\ IdleHist /\ IdleQuartic
  /\ harness = "poses"
  /\ featureVectors = NoMatrix
  /\ worldPoints = NoMatrix
  /\ solutions = <<>>
  /\ returned = <<>>
  /\ locals = NotComputed
  /\ solutionsBefore = <<>>
  /\ solutionsInitial = <<>>

\* A sequence of calls of computePoses on one vector, which the caller may
\* have filled before.
InitCalls ==
  /\ IdleCC /\ IdleHist /\ IdleQuartic
  /\ harness = "calls"
  /\ featureVectors = NoMatrix
  /\ worldPoints = NoMatrix
  /\ solutions \in {<<>>, <<Earlier>>}
  /\ returned = <<>>
  /\ locals = NotComputed
  /\ solutionsBefore = solutions
  /\ solutionsInitial = solutions

ComputePosesCall ==
  /\ Len(returned) < CallBudget(harness)
  /\ \E arg \in Arguments(harness) :
       LET res == computePoses(arg.featureVectors, arg.worldPoints, solutions) IN
         /\ featureVectors' = arg.featureVectors
         /\ worldPoints' = arg.worldPoints
         /\ solutions' = res.solutions
         /\ returned' = Append(returned, res.ret)
         /\ locals' = res.locals
         /\ solutionsBefore' = solutions
  /\ UNCHANGED <<harness, solutionsInitial>>
  /\ UNCHANGED <<ccVars, histVars, quarticVars>>

InitP3P == InitQuartic \/ InitPoses

NextP3P == SolveQuarticCall \/ ComputePosesCall

SpecP3P == InitP3P /\ [][NextP3P]_vars

SpecCalls == InitCalls /\ [][ComputePosesCall]_vars

-----------------------------------------------------------------------------
(* Properties                                                               *)

\* ---- properties of ConnectedComponents

\* The nodes joined to the nodes of S by a path of added edges.
RECURSIVE Grow(_)
Grow(S) ==
  LET T == S \cup {n \in UNION edges : \E e \in edges : n \in e /\ e \cap S # {}}
  IN  IF T = S THEN S ELSE Grow(T)

GraphComponents == {Grow({n}) : n \in UNION edges}

\* C5: with a cap max_size >= 1, every set Extract returns holds at most
\* max_size nodes (and so does every component of the structure); an AddEdge
\* refused by the cap merges nothing: the components are those before the
\* call plus a singleton for each node the call inserted.
C5_SizeCap ==
  /\ fresh => \A k \in DOMAIN connected_components :
                Cardinality(connected_components[k]) <= max_connected_component_size_
  /\ \A c \in Partition(disjoint_set_) : Cardinality(c) <= max_connected_component_size_
  /\ lastAdd.refused =>
       Partition(disjoint_set_) = lastAdd.before \cup {{n} : n \in lastAdd.nodes}

\* C5 witness: an AddEdge was refused by the cap while inserting a new node,
\* and the following Extract returned a full component next to it.
C5_Witness ==
  /\ fresh
  /\ lastAdd.refused
  /\ lastAdd.nodes # {}
  /\ max_connected_component_size_ >= 2
  /\ \E k \in DOMAIN connected_components :
       Cardinality(connected_components[k]) = max_connected_component_size_

\* C6: when the cap was never reached, Extract returns the partition of the
\* nodes seen by AddEdge into the connected components of the added edges,
\* each set under the id of one of its members; the invariant holds after
\* every Extract, so a second Extract returns the same partition.
C6_ComponentsComputed ==
  (fresh /\ ~capHit) =>
    /\ {connected_components[k] : k \in DOMAIN connected_components} = GraphComponents
    /\ Cardinality(DOMAIN connected_components) = Cardinality(GraphComponents)
    /\ \A k \in DOMAIN connected_components : k \in connected_components[k]
    /\ UNION {connected_components[k] : k \in DOMAIN connected_components} = DOMAIN disjoint_set_
    /\ DOMAIN disjoint_set_ = UNION edges

\* C6 witness: all nodes were joined step by step without the cap being
\* reached, and Extract returned them as one set.
C6_Witness ==
  /\ fresh
  /\ ~capHit
  /\ nAddEdge = MaxEdges
  /\ \E k \in DOMAIN connected_components : connected_components[k] = Nodes

\* ---- properties of Histogram

RECURSIVE SumSeq(_)
SumSeq(seq) == IF seq = <<>> THEN 0 ELSE Head(seq) + SumSeq(Tail(seq))

\* C7: each Add increments by one exactly one counter at an index inside
\* histogram_count_, the bin i with boundaries_[i] <= value < boundaries_[i+1]
\* (the last bin has no upper boundary), and leaves every other counter
\* unchanged; so the counters sum to the number of Add calls.
C7_AddCountsOneBin ==
  /\ nAdd > 0 =>
       /\ lastBin \in 0..(Len(histogram_count_) - 1)
       /\ boundaries_[lastBin + 1] <= lastValue
       /\ lastBin + 2 <= Len(boundaries_) => lastValue < boundaries_[lastBin + 2]
       /\ histogram_count_ = [countBefore EXCEPT ![lastBin + 1] = @ + 1]
  /\ SumSeq(histogram_count_) = nAdd

\* ---- properties of P3P_Kneip::computePoses

\* The value the last call returned.
LastReturned == returned[Len(returned)]

\* The three points lie on one line: P2 - P1 and P3 - P1 are proportional.
Collinear(wps) ==
  LET u == Sub(wps[2], wps[1])
      v == Sub(wps[3], wps[1])
      K == (-MaxCoord)..MaxCoord
  IN  \E p \in K, q \in K :
        /\ <<p, q>> # <<0, 0>>
        /\ \A k \in 1..3 : p * u[k] = q * v[k]

\* C1: computePoses returns -1 exactly when the three world points are
\* collinear (coincident points included) and 0 otherwise, whatever the
\* direction vectors are; the test comes first: a failing call has computed
\* nothing else and has left the solutions as they were.
C1_FailureIffCollinear ==
  (harness = "poses" /\ returned # <<>>) =>
    /\ LastReturned \in {0, -1}
    /\ (LastReturned = -1) <=> Collinear(worldPoints)
    /\ (LastReturned = -1) => (locals = NotComputed /\ solutions = solutionsBefore)
    /\ (LastReturned = 0) => locals.computed

\* C1 witness: a call failed on three distinct points of one line, with
\* direction vectors that span the space.
C1_Witness ==
  /\ harness = "poses"
  /\ returned = <<-1>>
  /\ worldPoints[1] # worldPoints[2]
  /\ worldPoints[1] # worldPoints[3]
  /\ worldPoints[2] # worldPoints[3]
  /\ Dot(Cross(featureVectors[1], featureVectors[2]), featureVectors[3]) # 0

\* C2: after a call the vector is empty when the call failed and has exactly
\* four entries when it succeeded.
C2_LengthByStatus ==
  returned # <<>> =>
    /\ (LastReturned = -1) => Len(solutions) = 0
    /\ (LastReturned = 0) => Len(solutions) = 4

\* The entries a call added.
Added == SubSeq(solutions, Len(solutionsBefore) + 1, Len(solutions))

Signed(s, z) == CMul(CReal(Num(s)), z)

\* Re(-B/(4A) + s1*w/2 + s2*sqrt(-(3*alpha + 2y + s1*2*beta/w))/2) from the
\* locals of the call.
RootBySigns(l, s1, s2) ==
  LET two == CReal(Num(2))
      inner == CAdd(CAdd(CMul(CReal(Num(3)), CReal(l.alpha)), CMul(two, l.y)),
                    Signed(s1, CDiv(CMul(two, CReal(l.beta)), l.w)))
  IN  CRealPart(CAdd(CAdd(CReal(l.shift), CDiv(Signed(s1, l.w), two)),
                     CDiv(Signed(s2, CSqrt(CNeg(inner))), two)))

\* The values of a sequence of four, as a bag.
AsBag(seq) == [v \in {seq[k] : k \in 1..4} |-> Cardinality({k \in 1..4 : seq[k] = v})]

\* C4: solveQuartic returns the four chosen roots the quartic was expanded
\* from, in any order.
C4_ReturnsChosenRoots ==
  quarticReturned # <<>> =>
    AsBag(realRoots) = AsBag([k \in 1..4 |-> Num(chosenRoots[k])])

\* C9: solveQuartic writes four values and returns 0; value k is the formula
\* for the k-th sign pair of (+,+), (+,-), (-,+), (-,-), with the sign of
\* 2*beta/w equal to the first sign; computePoses computes candidate i from
\* root i.
C9_FixedRootOrder ==
  /\ quarticReturned # <<>> =>
       /\ quarticReturned = <<0>>
       /\ Len(realRoots) = 4
       /\ realRoots[1] = RootBySigns(quarticLocals, 1, 1)
       /\ realRoots[2] = RootBySigns(quarticLocals, 1, -1)
       /\ realRoots[3] = RootBySigns(quarticLocals, -1, 1)
       /\ realRoots[4] = RootBySigns(quarticLocals, -1, -1)
  /\ (harness = "poses" /\ returned = <<0>>) =>
       /\ Len(Added) = 4
       /\ Added[1].root = <<1, 1>>
       /\ Added[2].root = <<1, -1>>
       /\ Added[3].root = <<-1, 1>>
       /\ Added[4].root = <<-1, -1>>

\* C9 witness: the call returned four numbers, the first three different and
\* the largest first, so not in ascending order.
C9_Witness ==
  /\ quarticReturned = <<0>>
  /\ \A k \in 1..4 : realRoots[k] # NaN
  /\ RLess(realRoots[2], realRoots[1])
  /\ RLess(realRoots[3], realRoots[2])

\* ---- properties of a sequence of computePoses calls on one vector

\* The number of successful calls among the returned values.
RECURSIVE Successes(_)
Successes(rets) ==
  IF rets = <<>> THEN 0
  ELSE (IF Head(rets) = 0 THEN 1 ELSE 0) + Successes(Tail(rets))

\* s is the beginning of t.
IsPrefix(s, t) == Len(s) <= Len(t) /\ SubSeq(t, 1, Len(s)) = s

\* C10: a call only appends: a failing call leaves the vector as it was, a
\* successful call adds four entries behind the entries that were there, and
\* after any sequence of calls the length is the initial length plus four
\* times the number of successful calls, the caller's entries still in front.
C10_OnlyAppends ==
  /\ IsPrefix(solutionsInitial, solutions)
  /\ Len(solutions) = Len(solutionsInitial) + 4 * Successes(returned)
  /\ returned # <<>> =>
       /\ IsPrefix(solutionsBefore, solutions)
       /\ (LastReturned = -1) => solutions = solutionsBefore
       /\ (LastReturned = 0) => Len(solutions) = Len(solutionsBefore) + 4

\* C10 witness: two successful calls on a vector that held one entry.
C10_Witness ==
  /\ harness = "calls"
  /\ solutionsInitial = <<Earlier>>
  /\ returned = <<0, 0>>
  /\ Len(solutions) = 9
  /\ solutions[1] = Earlier

====
